---- MODULE Spec2Model ----
(***************************************************************************)
(* GitCarrier (src/git_carrier.py): the GitManager gateway around the git  *)
(* binary and the ModernUI controller, as a state machine.                 *)
(*                                                                         *)
(* Text is a sequence of one-field tokens ("characters"); the delimiters   *)
(* "|" and "\n" are tokens of their own, so that formatting a log line and *)
(* splitting it again is computed, not assumed.                            *)
(***************************************************************************)
EXTENDS Integers, Sequences, FiniteSets, TLC

\* ------------------------------------------------------------------ bounds
\* Number of commits of the project, c1..cMainLen (more than one page).
MainLen == 17
\* Cap on the page counter (next_page has no upper limit in the code).
MaxPage == 2
\* Number of bundle-creation threads that can be alive at once.
MaxWorkers == 1
\* The user selects one of the first MaxRow rows of the commits table.
MaxRow == 2
\* get_commits on its own is asked with skip in 0..MaxSkip (past the end of the
\* history too) and limit in 0..MaxLimit.
MaxSkip == 17
MaxLimit == 4

\* ModernUI.__init__: self.page_size = 15
page_size == 15

\* ------------------------------------------------------------ small helpers
Min(a, b) == IF a < b THEN a ELSE b

RECURSIVE Concat(_)
Concat(ss) == IF ss = <<>> THEN <<>> ELSE Head(ss) \o Concat(Tail(ss))

\* sep.join(parts)
RECURSIVE Join(_, _)
Join(parts, sep) ==
  IF parts = <<>> THEN <<>>
  ELSE IF Len(parts) = 1 THEN parts[1]
  ELSE parts[1] \o <<sep>> \o Join(Tail(parts), sep)

\* str.split(sep): the pieces between the separators, always at least one
\* ("".split(sep) is [""])
Split(s, sep) ==
  LET at == {i \in 1..Len(s) : s[i] = sep}
      n == Cardinality(at)
      pos(k) == IF k = 0 THEN 0
                ELSE IF k = n + 1 THEN Len(s) + 1
                ELSE CHOOSE i \in at : Cardinality({j \in at : j < i}) = k - 1
  IN  [k \in 1..(n + 1) |-> SubSeq(s, pos(k - 1) + 1, pos(k) - 1)]

\* str.strip() on a token sequence: newlines at both ends go
RECURSIVE LStrip(_)
LStrip(s) == IF s # <<>> /\ Head(s) = "\n" THEN LStrip(Tail(s)) ELSE s

RECURSIVE RStrip(_)
RStrip(s) ==
  IF s # <<>> /\ s[Len(s)] = "\n" THEN RStrip(SubSeq(s, 1, Len(s) - 1)) ELSE s

Strip(s) == RStrip(LStrip(s))

RECURSIVE SeqFilterNonEmpty(_)
SeqFilterNonEmpty(ss) ==
  IF ss = <<>> THEN <<>>
  ELSE IF Head(ss) = <<>> THEN SeqFilterNonEmpty(Tail(ss))
  ELSE <<Head(ss)>> \o SeqFilterNonEmpty(Tail(ss))

SeqToSet(s) == {s[i] : i \in 1..Len(s)}

\* The element of a one-element set.  Only({e(x) : x \in {v}}) is e(v) with v
\* computed once: the local variable of a handler.
Only(S) == CHOOSE x \in S : TRUE

\* ------------------------------------------------------- the commit graph
\* Commits are numbered in the order they were made; 0 is "no commit".
Commits == 1..MainLen

\* The parent of a commit (0: the root commit has none).
Parent(c) == c - 1

RECURSIVE Reachable(_)
Reachable(c) == IF c = 0 THEN {} ELSE {c} \cup Reachable(Parent(c))

\* git log order: newest first, following parents.
RECURSIVE History(_)
History(c) == IF c = 0 THEN <<>> ELSE <<c>> \o History(Parent(c))

HexDigits ==
  <<"0", "1", "2", "3", "4", "5", "6", "7", "8", "9", "a", "b", "c", "d", "e", "f">>

DecDigits == {"0", "1", "2", "3", "4", "5", "6", "7", "8", "9"}

\* %h: an abbreviated object name, a pseudo-random hex string; some of them
\* consist of decimal digits only, some of those start with a zero.
ShortHash(c) ==
  LET n == (c * 37 + 221) % 256
  IN  <<HexDigits[(n \div 16) + 1], HexDigits[(n % 16) + 1]>>

\* %ad with --date=short
CommitDate(c) == <<"2024-01-", HexDigits[(c % 10) + 1]>>

\* %an: an author name is free text and may contain the '|' character
AuthorName(c) == IF c % 5 = 3 THEN <<"j", "|", "r">> ELSE <<"ann">>

\* %s: the subject line is free text and may contain the '|' character
SubjectLine(c) ==
  IF c % 4 = 1 THEN <<"a", "|", "b">> ELSE <<"fix", HexDigits[(c % 16) + 1]>>

\* ------------------------------------------------------------ the file system
\* /home is a clone with two branches, dev a full page of commits behind main;
\* /empty is a repository without commits; /plain is no repository.
RepoPaths == {"/home", "/empty"}
Folders == RepoPaths \cup {"/plain"}
BranchNames == {"dev", "main"}
\* git branch lists the local branches in name order
BranchOrder == <<"dev", "main">>

\* The bundle files the dialogs can name.
OpenFiles == {"in.bundle", "bad.bundle"}
SaveFiles == {"out.bundle"}
BundleFiles == OpenFiles \cup SaveFiles

NoFile == [kind |-> "absent", ref |-> "", base |-> {}, commits |-> {}, tip |-> 0]
CorruptFile == [kind |-> "corrupt", ref |-> "", base |-> {}, commits |-> {}, tip |-> 0]
\* A bundle: the ref it carries, its tip, the commits packed in it, and the
\* prerequisite commits (the boundary) a repository must already have.
Bundle(ref, tip, commits) ==
  [kind |-> "bundle", ref |-> ref, tip |-> tip, commits |-> commits,
   base |-> {Parent(c) : c \in commits} \ (commits \cup {0})]

\* A repository: HEAD's branch name and the tip of every branch (0: no such branch).
InitRepos ==
  [p \in RepoPaths |->
     IF p = "/home"
     THEN [head |-> "dev",
           tips |-> [b \in BranchNames |-> IF b = "main" THEN MainLen ELSE page_size]]
     ELSE [head |-> "main", tips |-> [b \in BranchNames |-> 0]]]

\* in.bundle came from the other machine, where dev had caught up with main.
InitFiles ==
  [f \in BundleFiles |->
     CASE f = "in.bundle"  -> Bundle("dev", MainLen, (page_size + 1)..MainLen)
       [] f = "bad.bundle" -> CorruptFile
       [] OTHER            -> NoFile]

\* os.path.isdir(os.path.join(path, ".git"))
is_git_repo(path) == path \in RepoPaths

\* The objects a repository holds.
Objects(repo) ==
  UNION {Reachable(repo.tips[b]) : b \in BranchNames}

\* ------------------------------------------------------------- the git binary
\* What subprocess.run gives back: the exit status and the drained streams.
\* The streams are token text for the commands whose output the program
\* parses, and opaque strings for the others.
Completed(rc, out, err) == [returncode |-> rc, stdout |-> out, stderr |-> err]

\* git branch --show-current
GitShowCurrent(repo) == Completed(0, <<repo.head, "\n">>, "")

\* git branch --format=%(refname:short)
GitBranchList(repo) ==
  Completed(0,
            Concat([i \in 1..Len(BranchOrder) |->
                      IF repo.tips[BranchOrder[i]] # 0
                      THEN <<BranchOrder[i], "\n">> ELSE <<>>]),
            "")

\* One line of --pretty=format:%h|%ad|%an|%s
LogLine(c) ==
  ShortHash(c) \o <<"|">> \o CommitDate(c) \o <<"|">> \o AuthorName(c)
    \o <<"|">> \o SubjectLine(c)

\* The standard output of git log -n <limit> --skip=<skip> on a branch at tip.
LogOutput(tip, skip, limit) ==
  Only({Join([i \in 1..Len(page) |-> LogLine(page[i])], "\n")
        : page \in {SubSeq(History(tip), skip + 1,
                           Min(skip + limit, Len(History(tip))))}})

\* LogOutput, worked out once for the pages the program asks for.
LogPages ==
  [k \in (0..MainLen) \X {p * page_size : p \in 0..(MaxPage + 1)} |->
     LogOutput(k[1], k[2], page_size)] @@ <<>>

\* git log <branch> --pretty=format:... --date=short -n <limit> --skip=<skip>
GitLog(repo, branch, skip, limit) ==
  IF branch \notin BranchNames \/ repo.tips[branch] = 0
  THEN Completed(128, <<>>, "fatal: ambiguous argument: unknown revision")
  ELSE Completed(0,
                 IF limit = page_size /\ <<repo.tips[branch], skip>> \in DOMAIN LogPages
                 THEN LogPages[<<repo.tips[branch], skip>>]
                 ELSE LogOutput(repo.tips[branch], skip, limit),
                 "")

\* A revision argument resolves to a branch tip or to the commit with that
\* abbreviated name; 0 when git cannot resolve it.
ResolveRev(repo, rev) ==
  IF Len(rev) = 1 /\ rev[1] \in BranchNames
  THEN repo.tips[rev[1]]
  ELSE Only({IF hits = {} THEN 0 ELSE CHOOSE c \in hits : TRUE
             : hits \in {{c \in Objects(repo) : ShortHash(c) = rev}}})

\* The range a rev_range argument names: <start>..<end> is the commits
\* reachable from <end> but not from <start> (an empty <end> is HEAD), a
\* single revision the commits reachable from it.  tip 0: it names nothing.
RevList(repo, rev_range) ==
  Only({IF Len(parts) > 2 THEN [tip |-> 0, ref |-> "", commits |-> {}]
        ELSE IF Len(parts) = 2
        THEN Only({[tip |-> IF from = 0 THEN 0 ELSE to,
                    ref |-> IF Len(parts[2]) = 1 THEN parts[2][1] ELSE repo.head,
                    commits |-> Reachable(to) \ Reachable(from)]
                   : from \in {ResolveRev(repo, parts[1])},
                     to \in {IF parts[2] = <<>> THEN repo.tips[repo.head]
                             ELSE ResolveRev(repo, parts[2])}})
        ELSE Only({[tip |-> to,
                    ref |-> IF Len(parts[1]) = 1 THEN parts[1][1] ELSE repo.head,
                    commits |-> Reachable(to)]
                   : to \in {ResolveRev(repo, parts[1])}})
        : parts \in {Split(rev_range, "..")}})

\* git bundle create <file> <rev_range>.  Gives the completed process and the
\* bundle written.
GitBundleCreate(repo, rev_range) ==
  Only({IF x.tip = 0
        THEN [res |-> Completed(128, "", "fatal: bad revision"), file |-> NoFile,
              written |-> FALSE]
        ELSE IF x.commits = {}
        THEN [res |-> Completed(128, "", "fatal: Refusing to create empty bundle."),
              file |-> NoFile, written |-> FALSE]
        ELSE [res |-> Completed(0, "", ""),
              file |-> Bundle(x.ref, x.tip, x.commits), written |-> TRUE]
        : x \in {RevList(repo, rev_range)}})

\* git bundle verify <file>
GitBundleVerify(repo, file) ==
  IF file.kind # "bundle"
  THEN Completed(1, "", "error: does not look like a v2 or v3 bundle file")
  ELSE IF ~(file.base \subseteq Objects(repo))
  THEN Completed(1, "", "error: Repository lacks these prerequisite commits")
  ELSE Completed(0, "The bundle contains this ref", "bundle is okay")

\* git pull <file> <branch>: fetch <branch> from the bundle and fast-forward
\* HEAD's branch to it.  Gives the completed process and the repository after.
GitPull(repo, file, branch) ==
  IF file.kind # "bundle" \/ ~(file.base \subseteq Objects(repo))
  THEN [res |-> Completed(1, "", "fatal: could not read bundle"), repo |-> repo]
  ELSE IF branch = "" \/ file.ref # branch
  THEN [res |-> Completed(1, "", "fatal: couldn't find remote ref"), repo |-> repo]
  ELSE IF file.tip \in Reachable(repo.tips[repo.head])
  THEN [res |-> Completed(0, "Already up to date.", ""), repo |-> repo]
  ELSE IF repo.tips[repo.head] \in Reachable(file.tip) \cup {0}
  THEN [res |-> Completed(0, "Fast-forward", ""),
        repo |-> [repo EXCEPT !.tips[repo.head] = file.tip]]
  ELSE [res |-> Completed(128, "", "fatal: Need to specify how to reconcile divergent branches."),
        repo |-> repo]

\* --------------------------------------------------------- Python values
\* selected_commit_hash holds None, a str or (after Tk's conversion) an int.
PyNone == [t |-> "None", s |-> <<>>, n |-> 0]
PyStr(s) == [t |-> "str", s |-> s, n |-> 0]
PyInt(n) == [t |-> "int", s |-> <<>>, n |-> n]

\* bool(v)
Truthy(v) ==
  CASE v.t = "None" -> FALSE
    [] v.t = "str"  -> v.s # <<>>
    [] OTHER        -> v.n # 0

RECURSIVE FormatInt(_)
FormatInt(n) ==
  IF n < 10 THEN <<HexDigits[n + 1]>>
  ELSE FormatInt(n \div 10) \o <<HexDigits[(n % 10) + 1]>>

\* f"{v}"
Format(v) ==
  CASE v.t = "None" -> <<"None">>
    [] v.t = "str"  -> v.s
    [] OTHER        -> FormatInt(v.n)

DigitValue(d) == (CHOOSE i \in 1..10 : HexDigits[i] = d) - 1

RECURSIVE ParseInt(_, _)
ParseInt(s, acc) ==
  IF s = <<>> THEN acc ELSE ParseInt(Tail(s), acc * 10 + DigitValue(Head(s)))

\* ttk.Treeview.item(...)['values'][i]: tkinter hands a cell back as an int when
\* int(str(cell)) succeeds, and as the string otherwise.
TkValue(cell) ==
  IF cell # <<>> /\ \A i \in 1..Len(cell) : cell[i] \in DecDigits
  THEN PyInt(ParseInt(cell, 0))
  ELSE PyStr(cell)

\* ---------------------------------------------------------- GitManager
\* The command line handed to run_git.
Cmd(op, file, branch, rev, skip, limit) ==
  [op |-> op, file |-> file, branch |-> branch, rev |-> rev, skip |-> skip,
   limit |-> limit]

\* The git process run in the configured repository: its result and what it
\* leaves on disk.
GitExec(st, cmd) ==
  LET repo == st.repos[st.repo_path]
  IN  CASE cmd.op = "show-current" ->
             [res |-> GitShowCurrent(repo), repos |-> st.repos, files |-> st.files]
        [] cmd.op = "branch-list" ->
             [res |-> GitBranchList(repo), repos |-> st.repos, files |-> st.files]
        [] cmd.op = "log" ->
             [res |-> GitLog(repo, cmd.branch, cmd.skip, cmd.limit),
              repos |-> st.repos, files |-> st.files]
        [] cmd.op = "bundle-create" ->
             Only({[res |-> x.res, repos |-> st.repos,
                    files |-> IF x.written
                              THEN [st.files EXCEPT ![cmd.file] = x.file]
                              ELSE st.files]
                   : x \in {GitBundleCreate(repo, cmd.rev)}})
        [] cmd.op = "bundle-verify" ->
             [res |-> GitBundleVerify(repo, st.files[cmd.file]),
              repos |-> st.repos, files |-> st.files]
        [] OTHER ->
             Only({[res |-> x.res, files |-> st.files,
                    repos |-> [st.repos EXCEPT ![st.repo_path] = x.repo]]
                   : x \in {GitPull(repo, st.files[cmd.file], cmd.branch)}})

NoResult == Completed(0, <<>>, "")

\* GitManager.run_git: None without a repository or when the process cannot be
\* launched (the exception is caught), the completed process otherwise.
run_git(st, cmd) ==
  IF st.repo_path = "" \/ ~st.gitAvail
  THEN [none |-> TRUE, res |-> NoResult, repos |-> st.repos, files |-> st.files]
  ELSE Only({[none |-> FALSE, res |-> x.res, repos |-> x.repos, files |-> x.files]
             : x \in {GitExec(st, cmd)}})

\* A gateway call as the history records it: what was asked of which
\* repository, and how it ended.
Call(op, path, file, branch, rev, r, ok, msg) ==
  [op |-> op, path |-> path, file |-> file, branch |-> branch, rev |-> rev,
   start |-> PyNone, spawned |-> ~r.none, raised |-> FALSE, returncode |-> r.res.returncode,
   stderr |-> r.res.stderr, ok |-> ok, msg |-> msg]

\* The path taken before it is checked.
set_repo_path_unchecked(st, path) ==
  [st |-> [st EXCEPT !.repo_path = path], ret |-> is_git_repo(path)]

\* GitManager.set_repo_path
set_repo_path(st, path) ==
  IF is_git_repo(path)
  THEN [st |-> [st EXCEPT !.repo_path = path], ret |-> TRUE]
  ELSE [st |-> st, ret |-> FALSE]

\* GitManager.get_current_branch: the stripped output, whatever the exit status
get_current_branch(st) ==
  Only({[ret |-> IF r.none \/ Strip(r.res.stdout) = <<>> THEN ""
                 ELSE Strip(r.res.stdout)[1],
         repos |-> r.repos, files |-> r.files,
         call |-> Call("get_current_branch", st.repo_path, "", "", <<>>, r,
                       ~r.none, "")]
        : r \in {run_git(st, Cmd("show-current", "", "", <<>>, 0, 0))}})

\* The names in the output of git branch, one a line.
BranchLines(stdout) ==
  Only({[i \in 1..Len(names) |-> names[i][1]]
        : names \in {SeqFilterNonEmpty(Split(Strip(stdout), "\n"))}})

\* GitManager.get_all_branches
get_all_branches(st) ==
  Only({[ret |-> IF ~r.none /\ r.res.returncode = 0
                 THEN BranchLines(r.res.stdout) ELSE <<>>,
         repos |-> r.repos, files |-> r.files,
         call |-> Call("get_all_branches", st.repo_path, "", "", <<>>, r,
                       ~r.none /\ r.res.returncode = 0, "")]
        : r \in {run_git(st, Cmd("branch-list", "", "", <<>>, 0, 0))}})

\* The loop body of get_commits: one output line to at most one record.
ParseLogLine(line) ==
  Only({IF Len(parts) >= 4
        THEN <<[hash |-> parts[1], date |-> parts[2], author |-> parts[3],
                msg |-> parts[4]]>>
        ELSE <<>>
        : parts \in {Split(line, "|")}})

\* The loop of get_commits over the lines of the output.
ParseLog(stdout) ==
  Only({Concat([i \in 1..Len(lines) |-> ParseLogLine(lines[i])])
        : lines \in {Split(stdout, "\n")}})

\* ParseLog, worked out once for the pages the program asks for.
ParsedPages ==
  [out \in {LogPages[k] : k \in DOMAIN LogPages} |-> ParseLog(out)] @@ <<>>

\* The skip left out of the command line.
get_commits_noskip(st, branch, skip, limit) ==
  Only({[ret |-> IF ~r.none /\ r.res.returncode = 0 /\ r.res.stdout # <<>>
                 THEN ParseLog(r.res.stdout) ELSE <<>>,
         repos |-> r.repos, files |-> r.files,
         call |-> Call("get_commits", st.repo_path, "", branch, <<>>, r,
                       ~r.none /\ r.res.returncode = 0, "")]
        : r \in {run_git(st, Cmd("log", "", branch, <<>>, 0, limit))}})

\* GitManager.get_commits
get_commits(st, branch, skip, limit) ==
  Only({[ret |-> IF ~r.none /\ r.res.returncode = 0 /\ r.res.stdout # <<>>
                 THEN IF r.res.stdout \in DOMAIN ParsedPages
                      THEN ParsedPages[r.res.stdout] ELSE ParseLog(r.res.stdout)
                 ELSE <<>>,
         repos |-> r.repos, files |-> r.files,
         call |-> Call("get_commits", st.repo_path, "", branch, <<>>, r,
                       ~r.none /\ r.res.returncode = 0, "")]
        : r \in {run_git(st, Cmd("log", "", branch, <<>>, skip, limit))}})

\* The start point dropped: the branch alone, whatever was asked.
RevRangeBranchOnly(start_point, branch) == IF branch = "" THEN <<>> ELSE <<branch>>

\* The rev_range create_bundle builds: start..branch, or the branch alone.
RevRange(start_point, branch) ==
  IF Truthy(start_point)
  THEN Format(start_point) \o <<"..">> \o (IF branch = "" THEN <<>> ELSE <<branch>>)
  ELSE IF branch = "" THEN <<>> ELSE <<branch>>

\* res.stderr or res.stdout
CreateMessage(res) == IF res.stderr # "" THEN res.stderr ELSE res.stdout

\* What a gateway operation that reads res.returncode gives: with res None the
\* attribute access raises AttributeError.
Outcome(op, st, file, branch, rev, r, msg) ==
  IF r.none
  THEN [raised |-> TRUE, ok |-> FALSE, msg |-> "", repos |-> r.repos,
        files |-> r.files,
        call |-> [Call(op, st.repo_path, file, branch, rev, r, FALSE, "")
                    EXCEPT !.raised = TRUE]]
  ELSE [raised |-> FALSE, ok |-> r.res.returncode = 0, msg |-> msg,
        repos |-> r.repos, files |-> r.files,
        call |-> Call(op, st.repo_path, file, branch, rev, r,
                      r.res.returncode = 0, msg)]

\* GitManager.create_bundle
create_bundle(st, start_point, branch, output_path) ==
  Only({[Outcome("create_bundle", st, output_path, branch, rev, r,
                 CreateMessage(r.res)) EXCEPT !.call.start = start_point]
        : rev \in {RevRange(start_point, branch)},
          r \in {run_git(st, Cmd("bundle-create", output_path, branch,
                                 RevRange(start_point, branch), 0, 0))}})

\* The text verify_bundle hands back with its verdict.
VerifyMessage(res) == res.stdout

\* GitManager.verify_bundle
verify_bundle(st, bundle_path) ==
  Only({Outcome("verify_bundle", st, bundle_path, "", <<>>, r, VerifyMessage(r.res))
        : r \in {run_git(st, Cmd("bundle-verify", bundle_path, "", <<>>, 0, 0))}})

\* The text fetch_bundle hands back with its verdict.
FetchMessage(res) == res.stdout

\* GitManager.fetch_bundle
fetch_bundle(st, bundle_path, branch) ==
  Only({Outcome("fetch_bundle", st, bundle_path, branch, <<>>, r, FetchMessage(r.res))
        : r \in {run_git(st, Cmd("pull", bundle_path, branch, <<>>, 0, 0))}})

\* ------------------------------------------------------------- ModernUI
VARIABLES
  repos,                 \* the repositories on disk
  files,                 \* the bundle files on disk
  gitAvail,              \* whether the git binary can be launched
  settings,              \* settings.json: last_repo ("" when there is none)
  repo_path,             \* GitManager.repo_path
  path_var,              \* the path shown in the header
  combo_values,          \* branch_combo['values']
  combo_text,            \* branch_combo.get()
  current_page,
  selected_commit_hash,
  lbl_selection,         \* the start point lbl_selection shows (PyNone: ALL History)
  tree,                  \* the rows of the commits table
  btn_prev, btn_next,    \* the state of the paging buttons
  status_var,
  modal,                 \* the confirmation dialog apply_bundle_action waits in
  workers,               \* the bundle-creation threads
  handler,               \* history: the handler or thread step that ran last
  calls,                 \* history: the gateway calls of that step
  dialogs,               \* history: the message boxes of that step
  log_query,             \* get_commits on its own: the arguments of the last call
  log_answer             \* get_commits on its own: what that call returned

vars ==
  <<repos, files, gitAvail, settings, repo_path, path_var, combo_values,
    combo_text, current_page, selected_commit_hash, lbl_selection, tree,
    btn_prev, btn_next, status_var, modal, workers, handler, calls, dialogs,
    log_query, log_answer>>

\* The state as one record, so that a handler is a function of it.
State ==
  [repos |-> repos, files |-> files, gitAvail |-> gitAvail, settings |-> settings,
   repo_path |-> repo_path, path_var |-> path_var, combo_values |-> combo_values,
   combo_text |-> combo_text, current_page |-> current_page,
   selected_commit_hash |-> selected_commit_hash, lbl_selection |-> lbl_selection,
   tree |-> tree, btn_prev |-> btn_prev, btn_next |-> btn_next,
   status_var |-> status_var, modal |-> modal, workers |-> workers,
   handler |-> handler, calls |-> calls, dialogs |-> dialogs]

Store(st) ==
  /\ repos' = st.repos
  /\ files' = st.files
  /\ gitAvail' = st.gitAvail
  /\ settings' = st.settings
  /\ repo_path' = st.repo_path
  /\ path_var' = st.path_var
  /\ combo_values' = st.combo_values
  /\ combo_text' = st.combo_text
  /\ current_page' = st.current_page
  /\ selected_commit_hash' = st.selected_commit_hash
  /\ lbl_selection' = st.lbl_selection
  /\ tree' = st.tree
  /\ btn_prev' = st.btn_prev
  /\ btn_next' = st.btn_next
  /\ status_var' = st.status_var
  /\ modal' = st.modal
  /\ workers' = st.workers
  /\ handler' = st.handler
  /\ calls' = st.calls
  /\ dialogs' = st.dialogs
  /\ UNCHANGED <<log_query, log_answer>>

NoModal == [open |-> FALSE, bundle_file |-> "", v_success |-> FALSE]
IdleWorker == [pc |-> "idle", filepath |-> "", branch |-> ""]

\* messagebox.show*(title, f"...{msg}"): msg is the part the gateway supplied
Dialog(kind, title, msg) == [kind |-> kind, title |-> title, msg |-> msg]
Shown(st, d) == [st EXCEPT !.dialogs = Append(@, d)]

\* The state after a gateway call: what git left on disk, and the history.
Did(st, r) ==
  [st EXCEPT !.repos = r.repos, !.files = r.files, !.calls = Append(@, r.call)]

\* A step starts: a handler of the UI thread with its input, or part n of one
\* that waits in between, or a step of thread n.  The history is of this step.
Enter(st, name, arg, n) ==
  [st EXCEPT !.handler = [name |-> name, arg |-> arg, n |-> n, ended |-> "returned"],
             !.calls = <<>>, !.dialogs = <<>>]

\* How the step left its handler: "returned", "raised" (an exception nothing in
\* the program catches) or "running" (it goes on in a later step).
Ended(st, how) == [st EXCEPT !.handler.ended = how]

\* load_commits: "if reset_page: ..."
ResetPage(st) ==
  [st EXCEPT !.current_page = 0, !.selected_commit_hash = PyNone,
             !.lbl_selection = PyNone]

\* load_commits from "skip = ..." on: fetch the page and show it
ShowPage(st, branch) ==
  Only({[Did(st, r) EXCEPT
           !.tree = r.ret,
           !.btn_prev = IF st.current_page > 0 THEN "normal" ELSE "disabled",
           !.btn_next = IF Len(r.ret) = page_size THEN "normal" ELSE "disabled"]
        : r \in {get_commits(st, branch, st.current_page * page_size, page_size)}})

\* ModernUI.load_commits
load_commits(st, reset_page) ==
  IF st.repo_path = "" THEN st
  ELSE Only({IF s1.combo_text = "" THEN s1 ELSE ShowPage(s1, s1.combo_text)
             : s1 \in {IF reset_page THEN ResetPage(st) ELSE st}})

\* The branch refresh_project_info leaves selected in the combobox.
SelectedAfterRefresh(old, branches, current) ==
  IF current # "" /\ current \in SeqToSet(branches) THEN current
  ELSE IF branches # <<>> THEN branches[1]
  ELSE old

\* ModernUI.refresh_project_info
refresh_project_info(st) ==
  IF st.repo_path = "" THEN st
  ELSE Only({[load_commits(
                 [Did(Did(st, a), b) EXCEPT
                    !.combo_values = a.ret,
                    !.combo_text = SelectedAfterRefresh(@, a.ret, b.ret)],
                 TRUE)
                EXCEPT !.status_var = <<"Loaded project: ", st.repo_path>>]
             : a \in {get_all_branches(st)}, b \in {get_current_branch(st)}})

\* ModernUI.save_settings
save_settings(st, path) == [st EXCEPT !.settings = path]

\* ModernUI.browse_folder; path is what askdirectory gave ("": cancelled)
browse_folder(st, path) ==
  IF path = "" THEN st
  ELSE Only({IF r.ret
             THEN refresh_project_info(
                    save_settings([r.st EXCEPT !.path_var = path], path))
             ELSE Shown(r.st, Dialog("showerror", "Error",
                                     "This folder is not a Git repository."))
             : r \in {set_repo_path(st, path)}})

\* ModernUI.load_settings, from __init__; last_repo is what settings.json holds
load_settings(st) ==
  IF st.settings # "" /\ st.settings \in Folders
  THEN Only({IF r.ret
             THEN refresh_project_info([r.st EXCEPT !.path_var = st.settings])
             ELSE r.st
             : r \in {set_repo_path(st, st.settings)}})
  ELSE st

\* The floor left out.
prev_page_unguarded(st) == load_commits([st EXCEPT !.current_page = @ - 1], FALSE)

\* ModernUI.prev_page
prev_page(st) ==
  IF st.current_page > 0
  THEN load_commits([st EXCEPT !.current_page = @ - 1], FALSE)
  ELSE st

\* ModernUI.next_page
next_page(st) == load_commits([st EXCEPT !.current_page = @ + 1], FALSE)

\* ModernUI.on_commit_select with row i of the table selected; c_msg[:30]
\* raises TypeError on an int, after the start point is set
on_commit_select(st, i) ==
  Only({IF c_msg.t = "int"
        THEN Ended([st EXCEPT !.selected_commit_hash = c_hash], "raised")
        ELSE [st EXCEPT !.selected_commit_hash = c_hash, !.lbl_selection = c_hash]
        : c_hash \in {TkValue(st.tree[i].hash)},
          c_msg \in {TkValue(st.tree[i].msg)}})

\* The guard left out.
HasRepoAnyway(st) == TRUE

\* create_bundle_action: "if not self.git.repo_path: return"
HasRepo(st) == st.repo_path # ""

\* ModernUI.create_bundle_action; target_file is what asksaveasfilename gave
\* ("": cancelled), slot the thread it starts
create_bundle_action(st, target_file, slot) ==
  IF ~HasRepo(st) THEN st
  ELSE IF target_file = "" THEN st
  ELSE [st EXCEPT
          !.status_var = <<"Creating bundle... please wait.">>,
          !.workers[slot] = [pc |-> "started", filepath |-> target_file,
                             branch |-> st.combo_text]]

\* _run_bundle_creation: the start point create_bundle is called with
StartPointOfThread(st, i) == st.selected_commit_hash

\* ModernUI._run_bundle_creation, to the end of create_bundle and its else branch
run_bundle_creation_create(st, i) ==
  Only({IF r.raised
        THEN [Ended(Did(st, r), "raised") EXCEPT !.workers[i] = IdleWorker]
        ELSE IF r.ok
        THEN [Ended(Did(st, r), "running") EXCEPT !.workers[i].pc = "created"]
        ELSE [Shown(Did(st, r), Dialog("showerror", "Error", r.msg)) EXCEPT
                !.status_var = <<"Error creating bundle.">>,
                !.workers[i] = IdleWorker]
        : r \in {create_bundle(st, StartPointOfThread(st, i),
                               st.workers[i].branch, st.workers[i].filepath)}})

\* ModernUI._run_bundle_creation, the branch after a successful create_bundle
run_bundle_creation_verify(st, i) ==
  Only({IF v.raised
        THEN [Ended(Did(st, v), "raised") EXCEPT !.workers[i] = IdleWorker]
        ELSE IF v.ok
        THEN [Shown(Did(st, v), Dialog("showinfo", "Success", st.workers[i].filepath))
                EXCEPT !.status_var = <<"Bundle ready.">>,
                       !.workers[i] = IdleWorker]
        ELSE [Shown(Did(st, v), Dialog("showwarning", "Warning", v.msg)) EXCEPT
                !.workers[i] = IdleWorker]
        : v \in {verify_bundle(st, st.workers[i].filepath)}})

\* The gate left out: any verdict lets the bundle through.
BundleAcceptedAnyway(v_success) == TRUE

\* apply_bundle_action: "if not v_success: ... return"
BundleAccepted(v_success) == v_success

\* apply_bundle_action from "self.status_var.set("Verifying bundle...")" to the
\* confirmation dialog
VerifyToApply(st, bundle_file) ==
  Only({IF v.raised THEN Ended(Did(st, v), "raised")
        ELSE IF ~BundleAccepted(v.ok)
        THEN Shown(Did(st, v), Dialog("showerror", "Invalid Bundle", v.msg))
        ELSE [Ended(Did(st, v), "running") EXCEPT
                !.modal = [open |-> TRUE, bundle_file |-> bundle_file,
                           v_success |-> v.ok]]
        : v \in {verify_bundle(st, bundle_file)}})

\* ModernUI.apply_bundle_action up to the confirmation dialog; bundle_file is
\* what askopenfilename gave ("": cancelled)
apply_bundle_action(st, bundle_file) ==
  IF st.repo_path = ""
  THEN Shown(st, Dialog("showerror", "Error", "Please select a project folder first."))
  ELSE IF bundle_file = "" THEN st
  ELSE VerifyToApply([st EXCEPT !.status_var = <<"Verifying bundle...">>],
                     bundle_file)

\* The answer ignored: the merge goes ahead on "no" as well.
MergeConfirmedAnyway(answer) == TRUE

\* apply_bundle_action: "if messagebox.askyesno(...)"
MergeConfirmed(answer) == answer

\* apply_bundle_action from "success, msg = self.git.fetch_bundle(...)" on
MergeBundle(st, bundle_file, branch) ==
  Only({IF r.raised THEN Ended(Did(st, r), "raised")
        ELSE IF r.ok
        THEN refresh_project_info(
               Shown(Did(st, r), Dialog("showinfo", "Success",
                                        "Changes merged successfully!")))
        ELSE Shown(Did(st, r), Dialog("showerror", "Merge Failed", r.msg))
        : r \in {fetch_bundle(st, bundle_file, branch)}})

\* ModernUI.apply_bundle_action from the answer to the confirmation dialog on
apply_bundle_answer(st, answer) ==
  Only({IF ~MergeConfirmed(answer) THEN s0
        ELSE Only({MergeBundle(
                     [Did(s0, b) EXCEPT !.status_var = <<"Merging bundle...">>],
                     st.modal.bundle_file, b.ret)
                   : b \in {get_current_branch(s0)}})
        : s0 \in {[st EXCEPT
                     !.modal = NoModal,
                     !.dialogs = <<Dialog("askyesno", "Confirm Merge",
                                          IF answer THEN "yes" ELSE "no")>>]}})

\* ------------------------------------------------------------ the machine
\* What settings.json can hold when the program starts.
InitSettings == {"", "/home", "/plain", "/gone"}

\* ModernUI.__init__ before load_settings
Constructed(last_repo) ==
  [repos |-> InitRepos, files |-> InitFiles, gitAvail |-> TRUE,
   settings |-> last_repo, repo_path |-> "", path_var |-> "No Project Selected",
   combo_values |-> <<>>, combo_text |-> "", current_page |-> 0,
   selected_commit_hash |-> PyNone, lbl_selection |-> PyNone, tree |-> <<>>,
   btn_prev |-> "normal", btn_next |-> "normal", status_var |-> <<"Ready.">>,
   modal |-> NoModal, workers |-> [i \in 1..MaxWorkers |-> IdleWorker],
   handler |-> [name |-> "__init__", arg |-> last_repo, n |-> 0,
                ended |-> "returned"],
   calls |-> <<>>, dialogs |-> <<>>]

\* The program starts in state st.
Start(st) ==
  /\ repos = st.repos
  /\ files = st.files
  /\ gitAvail = st.gitAvail
  /\ settings = st.settings
  /\ repo_path = st.repo_path
  /\ path_var = st.path_var
  /\ combo_values = st.combo_values
  /\ combo_text = st.combo_text
  /\ current_page = st.current_page
  /\ selected_commit_hash = st.selected_commit_hash
  /\ lbl_selection = st.lbl_selection
  /\ tree = st.tree
  /\ btn_prev = st.btn_prev
  /\ btn_next = st.btn_next
  /\ status_var = st.status_var
  /\ modal = st.modal
  /\ workers = st.workers
  /\ handler = st.handler
  /\ calls = st.calls
  /\ dialogs = st.dialogs

NoQuery == [branch |-> "", skip |-> 0, limit |-> 0, asked |-> FALSE]

Init ==
  /\ \E last_repo \in InitSettings :
       \E st \in {load_settings(Constructed(last_repo))} : Start(st)
  /\ log_query = NoQuery
  /\ log_answer = <<>>

\* The main window takes events only while no modal dialog is open.
UiIdle == ~modal.open

\* The "Open Project" button
BrowseFolder ==
  /\ UiIdle
  /\ \E path \in Folders \cup {""} :
       Store(browse_folder(Enter(State, "browse_folder", path, 0), path))

\* The "Refresh" button
Refresh ==
  /\ UiIdle
  /\ Store(refresh_project_info(Enter(State, "refresh_project_info", "", 0)))

\* <<ComboboxSelected>>: the user picks one of the listed branches
SelectBranch ==
  /\ UiIdle
  /\ \E i \in 1..Len(combo_values) :
       Store(load_commits(
               [Enter(State, "load_commits", combo_values[i], 0) EXCEPT
                  !.combo_text = combo_values[i]],
               TRUE))

\* The "< Newer" button, which a disabled state switches off
PrevPage ==
  /\ UiIdle
  /\ btn_prev = "normal"
  /\ Store(prev_page(Enter(State, "prev_page", "", 0)))

\* The "Older >" button, which a disabled state switches off
NextPage ==
  /\ UiIdle
  /\ btn_next = "normal"
  /\ current_page < MaxPage
  /\ Store(next_page(Enter(State, "next_page", "", 0)))

\* <<TreeviewSelect>> with a row selected
SelectCommit ==
  /\ UiIdle
  /\ \E i \in 1..Min(Len(tree), MaxRow) :
       Store(on_commit_select(Enter(State, "on_commit_select", "", i), i))

\* The "Create Bundle" button
CreateBundle ==
  /\ UiIdle
  /\ \E i \in 1..MaxWorkers :
       /\ workers[i].pc = "idle"
       /\ \A j \in 1..(i - 1) : workers[j].pc # "idle"
       /\ \E target_file \in SaveFiles \cup {""} :
            Store(create_bundle_action(
                    Enter(State, "create_bundle_action", target_file, 0),
                    target_file, i))

\* A bundle-creation thread runs create_bundle
ThreadCreate ==
  \E i \in 1..MaxWorkers :
    /\ workers[i].pc = "started"
    /\ Store(run_bundle_creation_create(
               Enter(State, "_run_bundle_creation", workers[i].filepath, i), i))

\* A bundle-creation thread runs verify_bundle and reports
ThreadVerify ==
  \E i \in 1..MaxWorkers :
    /\ workers[i].pc = "created"
    /\ Store(run_bundle_creation_verify(
               Enter(State, "_run_bundle_creation", workers[i].filepath, i), i))

\* The "Select Bundle File" button
ApplyBundle ==
  /\ UiIdle
  /\ \E bundle_file \in OpenFiles \cup {""} :
       Store(apply_bundle_action(
               Enter(State, "apply_bundle_action", bundle_file, 0), bundle_file))

\* The user answers the confirmation dialog
ApplyAnswer ==
  /\ modal.open
  /\ \E answer \in BOOLEAN :
       Store(apply_bundle_answer(
               Enter(State, "apply_bundle_action", modal.bundle_file, 1), answer))

\* The git binary goes away (uninstalled, off the PATH)
GitLost ==
  /\ gitAvail
  /\ Store([Enter(State, "(git)", "", 0) EXCEPT !.gitAvail = FALSE])

Next ==
  \/ BrowseFolder
  \/ Refresh
  \/ SelectBranch
  \/ PrevPage
  \/ NextPage
  \/ SelectCommit
  \/ CreateBundle
  \/ ThreadCreate
  \/ ThreadVerify
  \/ ApplyBundle
  \/ ApplyAnswer
  \/ GitLost

Spec == Init /\ [][Next]_vars

\* --------------------------------------------------- get_commits on its own
\* GitManager with /home configured, as ModernUI has it after load_settings.
InitLog ==
  /\ \E st \in {load_settings(Constructed("/home"))} : Start(st)
  /\ log_query = NoQuery
  /\ log_answer = <<>>

\* A call of get_commits with any branch, skip and limit.
AskCommits ==
  \E branch \in BranchNames, skip \in 0..MaxSkip, limit \in 0..MaxLimit :
    /\ log_query' = [branch |-> branch, skip |-> skip, limit |-> limit, asked |-> TRUE]
    /\ log_answer' = get_commits(State, branch, skip, limit).ret
    /\ UNCHANGED <<repos, files, gitAvail, settings, repo_path, path_var,
                   combo_values, combo_text, current_page, selected_commit_hash,
                   lbl_selection, tree, btn_prev, btn_next, status_var, modal,
                   workers, handler, calls, dialogs>>

NextLog == AskCommits

SpecLog == InitLog /\ [][NextLog]_vars

\* ------------------------------------------------------------- the claims
\* The gateway calls of the step that led to a state, as a set.
CallsOf(cs) == {cs[i] : i \in 1..Len(cs)}
MergeCalls(cs) == {c \in CallsOf(cs) : c.op = "fetch_bundle"}

\* C1: the merge operation is called on a bundle file only after verify_bundle
\* was run on that same file in the same apply action and gave "valid": every
\* step that calls fetch_bundle starts in the confirmation dialog of an apply
\* action whose verification of that file succeeded, and git does verify the
\* file in the configured repository.
C1_MergeOnlyVerified ==
  [][\A c \in MergeCalls(calls') :
       /\ modal.open
       /\ modal.v_success
       /\ modal.bundle_file = c.file
       /\ GitBundleVerify(repos[repo_path], files[c.file]).returncode = 0]_vars

\* C1 happens: a verified bundle has been merged.
C1_Witness ==
  \E c \in MergeCalls(calls) : c.spawned /\ c.ok /\ c.file = "in.bundle"

\* The four variables of the controller's state machine.
Selection == <<repo_path, combo_text, current_page, selected_commit_hash>>

\* C2: every merge call follows an explicit "yes" to the confirmation prompt of
\* the same apply action, and an apply action that makes no merge call (the
\* user declined, among others) leaves the repository path, the selected
\* branch, the page and the start point as they were.
C2_MergeOnlyConfirmed ==
  [][/\ \A c \in MergeCalls(calls') :
          /\ modal.open
          /\ handler'.name = "apply_bundle_action" /\ handler'.n = 1
          /\ dialogs'[1] = Dialog("askyesno", "Confirm Merge", "yes")
     /\ (handler'.name = "apply_bundle_action" /\ handler'.n = 1
           /\ dialogs'[1] = Dialog("askyesno", "Confirm Merge", "no"))
          => /\ MergeCalls(calls') = {}
             /\ Selection' = Selection
             /\ repos' = repos]_vars

\* C2 happens: the user declined the merge of a verified bundle that would
\* have moved the branch.
C2_Witness ==
  /\ handler.name = "apply_bundle_action" /\ handler.n = 1
  /\ handler.arg = "in.bundle"
  /\ dialogs = <<Dialog("askyesno", "Confirm Merge", "no")>>
  /\ repo_path = "/home"
  /\ repos["/home"].tips["dev"] = page_size

CreateCalls(cs) == {c \in CallsOf(cs) : c.op = "create_bundle"}

\* C3: a create_bundle call for a branch that succeeds leaves at its output path a
\* bundle of the complete history of the branch when the start point is absent, and
\* of exactly the commits reachable from the branch but not from the commit the
\* start point names when it is present: c(k+1)..cn for the start point ck on
\* the linear history c1..cn.
C3_BundleRange ==
  \A c \in CreateCalls(calls) :
    (c.ok /\ c.branch \in BranchNames) =>
      /\ files[c.file].kind = "bundle"
      /\ files[c.file].tip = repos[c.path].tips[c.branch]
      /\ IF c.start.t = "None"
         THEN files[c.file].commits = Reachable(repos[c.path].tips[c.branch])
         ELSE \E k \in Commits :
                /\ ShortHash(k) = Format(c.start)
                /\ files[c.file].commits
                     = Reachable(repos[c.path].tips[c.branch]) \ Reachable(k)
                /\ files[c.file].commits = (k + 1)..repos[c.path].tips[c.branch]

\* C3 happens: a bundle was made from a start point, and holds part of the
\* history only.
C3_Witness ==
  \E c \in CreateCalls(calls) :
    /\ c.ok
    /\ c.branch \in BranchNames
    /\ c.start.t # "None"
    /\ files[c.file].commits # {}
    /\ files[c.file].commits # Reachable(repos[c.path].tips[c.branch])

\* What the thread in slot i is going to ask of the gateway.
Request(i) ==
  [repo |-> repo_path, branch |-> workers[i].branch,
   start |-> IF workers[i].pc = "started" THEN StartPointOfThread(State, i)
             ELSE PyNone]

\* C4: the request of a bundle-creation thread is the one of the moment the
\* user triggered it: no step that leaves the thread where it is changes the
\* repository, the branch or the start point its gateway calls will use.
C4_RequestFrozen ==
  [][\A i \in 1..MaxWorkers :
       (workers[i].pc # "idle" /\ workers'[i].pc = workers[i].pc)
         => Request(i)' = Request(i)]_vars

\* The mutating operations in flight in the step that led to a state: the
\* threads that are alive after it and a merge the step ran.
InFlight ==
  Cardinality({i \in 1..MaxWorkers : workers[i].pc # "idle"})
    + Cardinality({c \in MergeCalls(calls) : c.spawned})

\* C5: at most one mutating operation, a bundle creation or a merge, is in
\* flight at any time.
C5_OneInFlight == InFlight <= 1

GatewayOps ==
  {"get_current_branch", "get_all_branches", "get_commits", "create_bundle",
   "verify_bundle", "fetch_bundle"}

\* C6: no gateway operation ever raises to its caller.
C6_NeverRaises ==
  \A c \in CallsOf(calls) : c.op \in GatewayOps => ~c.raised

\* C7: create_bundle_action with the repository path unset is a no-op: no
\* gateway call and no process, no file written, no thread started, no dialog,
\* and the controller's state as it was.
C7_CreateUnsetNoOp ==
  [][(handler'.name = "create_bundle_action" /\ repo_path = "")
       => /\ calls' = <<>>
          /\ dialogs' = <<>>
          /\ UNCHANGED <<repos, files, gitAvail, settings, repo_path, path_var,
                         combo_values, combo_text, current_page,
                         selected_commit_hash, lbl_selection, tree, btn_prev,
                         btn_next, status_var, modal, workers>>]_vars

\* C7 happens: the button was pressed with no repository selected.
C7_Witness ==
  /\ handler.name = "create_bundle_action"
  /\ handler.arg = "out.bundle"
  /\ repo_path = ""

\* C8: a bundle-creation thread ends with exactly one report: "success" iff
\* create_bundle and the verify_bundle after it succeeded, "warning" iff
\* create_bundle succeeded and verify_bundle failed, "error" iff create_bundle
\* failed; and it goes on to verify_bundle, without a report yet, after every
\* successful create_bundle.
C8_OneReport ==
  handler.name = "_run_bundle_creation" =>
    /\ Len(calls) = 1
    /\ IF calls[1].op = "create_bundle" /\ calls[1].ok
       THEN handler.ended = "running" /\ dialogs = <<>>
            /\ workers[handler.n].pc = "created"
       ELSE /\ handler.ended = "returned"
            /\ Len(dialogs) = 1
            /\ dialogs[1].kind =
                 (IF calls[1].op = "create_bundle" THEN "showerror"
                  ELSE IF calls[1].ok THEN "showinfo" ELSE "showwarning")

\* The operations whose failure the user is told of.
ReportedOps == {"create_bundle", "verify_bundle", "fetch_bundle"}

\* C9: when a create, verify or merge fails with a non-zero exit and the
\* tool wrote a diagnostic, the message the gateway returns is that diagnostic
\* and a dialog shows it.
C9_DiagnosticShown ==
  \A c \in CallsOf(calls) :
    (c.op \in ReportedOps /\ c.spawned /\ c.returncode # 0 /\ c.stderr # "")
      => /\ c.msg = c.stderr
         /\ \E i \in 1..Len(dialogs) : dialogs[i].msg = c.stderr

\* The first page of a branch of the repository at path, as git has it.
FirstPage(path, branch) ==
  IF branch \notin BranchNames \/ repos[path].tips[branch] = 0 THEN <<>>
  ELSE ParseLog(LogOutput(repos[path].tips[branch], 0, page_size))

\* C10: after a successful repository selection (git at hand) the path is
\* persisted, the page is 0, the start point is absent, the selected branch is
\* a branch of the new repository or none, and the rows are the first page of
\* that branch in the new repository.
C10_ResetOnOpen ==
  (handler.name = "browse_folder" /\ is_git_repo(handler.arg) /\ gitAvail)
    => /\ repo_path = handler.arg
       /\ settings = handler.arg
       /\ current_page = 0
       /\ selected_commit_hash = PyNone
       /\ combo_text = "" \/ repos[repo_path].tips[combo_text] # 0
       /\ tree = FirstPage(repo_path, combo_text)

\* C11: right after a branch selection, a repository change or a refresh the
\* page is 0 and the start point is absent; paging forward or backward never
\* changes the start point.
C11_ResetAndPaging ==
  [][/\ (\/ handler'.name \in {"load_commits", "refresh_project_info"}
         \/ handler'.name = "browse_folder" /\ is_git_repo(handler'.arg))
          => current_page' = 0 /\ selected_commit_hash' = PyNone
     /\ handler'.name \in {"prev_page", "next_page"}
          => selected_commit_hash' = selected_commit_hash]_vars

\* The configured repository has no commits, and so no branches.
EmptyRepo ==
  repo_path \in RepoPaths /\ \A b \in BranchNames : repos[repo_path].tips[b] = 0

\* C12: with an empty repository configured bundle creation is out of reach:
\* create_bundle_action starts no thread there.
C12_NoCreateInEmptyRepo ==
  [][(EmptyRepo /\ handler'.name = "create_bundle_action")
       => workers' = workers]_vars

\* C13: selecting a folder that is no repository changes nothing: the gateway
\* keeps its repository path and makes no call, the controller shows an error,
\* and the settings, the selected branch, the page, the start point and the
\* rows stay as they were.
C13_InvalidFolderNoChange ==
  [][(handler'.name = "browse_folder" /\ handler'.arg # ""
        /\ ~is_git_repo(handler'.arg))
       => /\ dialogs' = <<Dialog("showerror", "Error",
                                  "This folder is not a Git repository.")>>
          /\ calls' = <<>>
          /\ UNCHANGED <<repos, files, gitAvail, settings, repo_path, path_var,
                         combo_values, combo_text, current_page,
                         selected_commit_hash, lbl_selection, tree, btn_prev,
                         btn_next, status_var, modal, workers>>]_vars

\* C13 happens: with a project open and a start point chosen, the user picked
\* a folder that is no repository.
C13_Witness ==
  /\ handler.name = "browse_folder"
  /\ handler.arg = "/plain"
  /\ repo_path = "/home"
  /\ selected_commit_hash # PyNone

\* C14: a page-forward action moves to the next page only if the last fetch,
\* whose rows the table shows, gave a full page of page_size commits; otherwise
\* it leaves the page as it was.
C14_ForwardOnlyAfterFullPage ==
  [][handler'.name = "next_page"
       => IF Len(tree) = page_size
          THEN current_page' = current_page + 1
          ELSE current_page' = current_page]_vars

\* C15: a fetch gives fewer than page_size commits exactly when the history is
\* exhausted, so that, whatever the length of the history (a multiple of the
\* page size too), the controller never shows a page that lies entirely past
\* the end of the history of the selected branch.
C15_NoPagePastTheEnd ==
  (repo_path # "" /\ combo_text \in BranchNames
     /\ repos[repo_path].tips[combo_text] > 0)
    => current_page * page_size < Len(History(repos[repo_path].tips[combo_text]))

\* C16: the page is never negative; a page-backward action on page 0 changes
\* nothing and makes no gateway call, and on a later page it goes back by
\* exactly one page.
C16_BackwardFloored ==
  [][/\ current_page >= 0 /\ current_page' >= 0
     /\ handler'.name = "prev_page"
          => IF current_page = 0
             THEN /\ calls' = <<>>
                  /\ dialogs' = <<>>
                  /\ UNCHANGED <<repos, files, gitAvail, settings, repo_path,
                                 path_var, combo_values, combo_text, current_page,
                                 selected_commit_hash, lbl_selection, tree,
                                 btn_prev, btn_next, status_var, modal, workers>>
             ELSE current_page' = current_page - 1]_vars

\* C16 happens: the user went back from the second page to the first, which
\* was fetched again.
C16_Witness ==
  /\ handler.name = "prev_page"
  /\ current_page = 0
  /\ calls # <<>>
  /\ Len(tree) = page_size

\* The history of the branch the last log_query named, newest first.
Asked == History(repos[repo_path].tips[log_query.branch])

\* The commit as the record get_commits should give for it.
Record(c) ==
  [hash |-> ShortHash(c), date |-> CommitDate(c), author |-> AuthorName(c),
   msg |-> SubjectLine(c)]

\* C17: get_commits(branch, skip, limit) with limit > 0 gives at most limit
\* records, newest first, for exactly the entries skip+1 .. min(skip+limit,
\* length) of the history, each with the commit's short hash, date, author name
\* and whole subject line, whatever the author name and the subject line contain.
C17_CommitsAsInHistory ==
  (log_query.asked /\ log_query.limit > 0)
    => /\ Len(log_answer) <= log_query.limit
       /\ log_answer = [i \in 1..(Min(log_query.skip + log_query.limit, Len(Asked))
                                - Min(log_query.skip, Len(Asked)))
                      |-> Record(Asked[log_query.skip + i])]

\* C18: against an unchanged repository, get_commits(branch, 0, n) followed by
\* get_commits(branch, n, m) is get_commits(branch, 0, n + m) for n + m within
\* the length of the history, and a call repeated gives the same sequence.
C18_PagesConcatenate ==
  (log_query.asked /\ log_query.skip + log_query.limit <= Len(Asked))
    => /\ get_commits(State, log_query.branch, 0, log_query.skip).ret \o log_answer
            = get_commits(State, log_query.branch, 0, log_query.skip + log_query.limit).ret
       /\ log_answer
            = get_commits(State, log_query.branch, log_query.skip, log_query.limit).ret

\* C18 happens: a second page of several commits was asked for.
C18_Witness ==
  /\ log_query.asked
  /\ log_query.skip > 1
  /\ log_query.limit > 1
  /\ Len(log_answer) = log_query.limit

\* C19: a start point that is set is the hash of a commit of the history of the
\* selected branch in the configured repository, the only place its row can
\* have been fetched from.
C19_StartPointFromBranch ==
  selected_commit_hash # PyNone
    => /\ repo_path # ""
       /\ combo_text \in BranchNames
       /\ \E c \in Reachable(repos[repo_path].tips[combo_text]) :
            Format(selected_commit_hash) = ShortHash(c)

\* The messages the status line shows while an action is under way.
InProgress ==
  {<<"Creating bundle... please wait.">>, <<"Verifying bundle...">>,
   <<"Merging bundle...">>}

\* C20: when no bundle-creation thread is alive and no apply action waits for
\* its answer, every create or apply action has finished, and the status line
\* shows no in-progress message.
C20_StatusSettles ==
  ((\A i \in 1..MaxWorkers : workers[i].pc = "idle") /\ ~modal.open)
    => status_var \notin InProgress

====
